---- MODULE Spec2Model ----
(***************************************************************************)
(* Model of script.js: a browser script that fetches the cars dataset,     *)
(* plots it, converts it to normalized tensors and trains a two-layer      *)
(* model for a fixed number of epochs.                                     *)
(*                                                                         *)
(* The state is the position of the top-level script, the position of the  *)
(* async function run(), the locals of getData / run / convertToTensor     *)
(* that the properties speak about, and the observable calls made so far   *)
(* (console, tfvis, fetch, fit callbacks).                                 *)
(*                                                                         *)
(* Numbers: dataset values are small naturals; tensor values are exact     *)
(* rationals [t |-> "number", n, d] in lowest terms, or the IEEE specials  *)
(* NaN, Infinity, -Infinity.                                               *)
(***************************************************************************)
EXTENDS Integers, Sequences, FiniteSets, TLC

\* ------------------------------------------------------------------ bounds
\* longest fetched list
MaxLen == 2
\* largest Miles_per_Gallon / Horsepower value in a fetched record
MaxVal == 2

\* --------------------------------------------------------- program constants
\* script.js:164  const epochs = 50
Epochs == 50

\* ------------------------------------------------------------------ JS values
Null == [t |-> "null"]
Undefined == [t |-> "undefined"]
NaN == [t |-> "NaN"]
PosInf == [t |-> "Infinity"]
NegInf == [t |-> "-Infinity"]

Abs(x) == IF x < 0 THEN -x ELSE x

RECURSIVE GCD(_, _)
GCD(a, b) == IF b = 0 THEN a ELSE GCD(b, a % b)

\* the rational n/d (d # 0) in lowest terms with a positive denominator
Rat(n, d) ==
    LET g == GCD(Abs(n), Abs(d))
        s == IF d < 0 THEN -1 ELSE 1
    IN  [t |-> "number", n |-> s * (n \div g), d |-> s * (d \div g)]

Number(n) == [t |-> "number", n |-> n, d |-> 1]

IsFinite(a) == a.t = "number"
IsInf(a) == a.t \in {"Infinity", "-Infinity"}
Negate(a) == IF a.t = "Infinity" THEN NegInf ELSE IF a.t = "-Infinity" THEN PosInf ELSE a
Sign(a) == IF IsFinite(a) THEN (IF a.n < 0 THEN -1 ELSE 1)
           ELSE IF a.t = "-Infinity" THEN -1 ELSE 1

\* IEEE subtraction a - b
SubNum(a, b) ==
    IF a.t = "NaN" \/ b.t = "NaN" THEN NaN
    ELSE IF IsFinite(a) /\ IsFinite(b) THEN Rat(a.n * b.d - b.n * a.d, a.d * b.d)
    ELSE IF IsFinite(a) THEN Negate(b)
    ELSE IF IsFinite(b) THEN a
    ELSE IF a = b THEN NaN ELSE a

\* IEEE division a / b : 0/0 is NaN, x/0 is +-Infinity
DivNum(a, b) ==
    IF a.t = "NaN" \/ b.t = "NaN" THEN NaN
    ELSE IF IsFinite(a) /\ IsFinite(b) THEN
        IF b.n = 0 THEN (IF a.n = 0 THEN NaN ELSE IF a.n > 0 THEN PosInf ELSE NegInf)
        ELSE Rat(a.n * b.d, a.d * b.n)
    ELSE IF IsFinite(a) THEN Number(0)
    ELSE IF IsFinite(b) THEN (IF Sign(a) * Sign(b) > 0 THEN PosInf ELSE NegInf)
    ELSE NaN

\* a < b on finite numbers
LessNum(a, b) == a.n * b.d < b.n * a.d

\* ------------------------------------------------------------- fetched data
FieldNames == {"Miles_per_Gallon", "Horsepower"}

\* a JSON value of a consumed field: null or a number
JsonValues == {Null} \cup {Number(n) : n \in 0..MaxVal}

\* a raw record: each consumed field is present (null or a number) or missing
RawRecords == UNION {[S -> JsonValues] : S \in SUBSET FieldNames}

RawLists == UNION {[1..k -> RawRecords] : k \in 0..MaxLen}

\* property read car.f : a missing property reads as undefined
Get(car, f) == IF f \in DOMAIN car THEN car[f] ELSE Undefined

\* v != null  (loose inequality: false for null and for undefined)
LooseNotNull(v) == v.t \notin {"null", "undefined"}

\* the object literal of the map callback; id is the identity of the new object
Project(carsData, i) ==
    [id |-> i,
     mpg |-> Get(carsData[i], "Miles_per_Gallon"),
     horsepower |-> Get(carsData[i], "Horsepower")]

\* variant: a filter joined with || instead of &&
KeepCar_Or(car) == LooseNotNull(car.mpg) \/ LooseNotNull(car.horsepower)

\* the filter callback
KeepCar(car) == LooseNotNull(car.mpg) /\ LooseNotNull(car.horsepower)

Reverse(s) == [i \in 1..Len(s) |-> s[Len(s) + 1 - i]]

\* variant: the kept records in reverse order
Cleaned_Reversed(carsData) ==
    Reverse(SelectSeq([i \in 1..Len(carsData) |-> Project(carsData, i)], KeepCar))

\* carsData.map(...).filter(...)
Cleaned(carsData) ==
    SelectSeq([i \in 1..Len(carsData) |-> Project(carsData, i)], KeepCar)

\* data.map(d => ({x: d.horsepower, y: d.mpg}))
ScatterValues(data) == [i \in 1..Len(data) |-> [x |-> data[i].horsepower, y |-> data[i].mpg]]

\* ------------------------------------------------------------ convertToTensor
\* variant: an exchange that loses the element at i
Swap_Overwrite(arr, i, j) == [arr EXCEPT ![i] = arr[j]]

\* exchange of two array elements
Swap(arr, i, j) == [arr EXCEPT ![i] = arr[j], ![j] = arr[i]]

\* tf.util.shuffle(array): Fisher-Yates in place; the set of arrays it can
\* leave, one per sequence of random indices
RECURSIVE Shuffle(_, _)
Shuffle(arr, counter) ==
    IF counter = 0 THEN {arr}
    ELSE UNION {Shuffle(Swap(arr, counter, index), counter - 1) : index \in 1..counter}

ExtractInputs(data) == [i \in 1..Len(data) |-> data[i].horsepower]

\* variant: labels taken in the opposite order to the inputs
ExtractLabels_Reversed(data) == [i \in 1..Len(data) |-> data[Len(data) + 1 - i].mpg]

ExtractLabels(data) == [i \in 1..Len(data) |-> data[i].mpg]

\* tensor.max() / tensor.min() over all elements; the reduction of an empty
\* tensor is whatever the backend leaves (emptyVal)
RECURSIVE TensorMax(_, _)
TensorMax(t, emptyVal) ==
    IF Len(t) = 0 THEN emptyVal
    ELSE IF Len(t) = 1 THEN t[1]
    ELSE LET m == TensorMax(Tail(t), emptyVal)
         IN  IF LessNum(m, t[1]) THEN t[1] ELSE m

RECURSIVE TensorMin(_, _)
TensorMin(t, emptyVal) ==
    IF Len(t) = 0 THEN emptyVal
    ELSE IF Len(t) = 1 THEN t[1]
    ELSE LET m == TensorMin(Tail(t), emptyVal)
         IN  IF LessNum(t[1], m) THEN t[1] ELSE m

\* variant: division by the maximum instead of the range
Normalize_ByMax(t, lo, hi) == [i \in 1..Len(t) |-> DivNum(SubNum(t[i], lo), hi)]

\* tensor.sub(lo).div(hi.sub(lo)), the scalars broadcast over the tensor
Normalize(t, lo, hi) == [i \in 1..Len(t) |-> DivNum(SubNum(t[i], lo), SubNum(hi, lo))]

\* results a backend can leave for the max / min of an empty tensor
EmptyMaxOutcomes == {NaN, NegInf}
EmptyMinOutcomes == {NaN, PosInf}

\* the body of the tf.tidy callback after the shuffle
ConvertToTensor(data, emptyMax, emptyMin) ==
    LET inputs == ExtractInputs(data)
        labels == ExtractLabels(data)
        inputMax == TensorMax(inputs, emptyMax)
        inputMin == TensorMin(inputs, emptyMin)
        labelMax == TensorMax(labels, emptyMax)
        labelMin == TensorMin(labels, emptyMin)
    IN  [inputs |-> Normalize(inputs, inputMin, inputMax),
         labels |-> Normalize(labels, labelMin, labelMax),
         inputMax |-> inputMax, inputMin |-> inputMin,
         labelMax |-> labelMax, labelMin |-> labelMin]

\* ---------------------------------------------------------------------- state
VARIABLES
    scriptPc,     \* next top-level statement of the script
    listener,     \* run is registered for DOMContentLoaded
    domFired,     \* the document's DOMContentLoaded has been dispatched
    model,        \* the module-level const: "uninitialized", "created", "compiled"
    runPc,        \* position of the async function run()
    runError,     \* the error run() rejected with, "" if none
    fetchCount,   \* number of fetch() calls issued
    carsData,     \* getData: the parsed response
    cleaned,      \* getData: the array it returns
    data,         \* run: the array (the same object convertToTensor shuffles)
    dataAtCall,   \* contents of data when convertToTensor was entered
    values,       \* run: the scatter plot points
    tensorData,   \* run: <<>> or <<the object convertToTensor returned>>
    epoch,        \* fit: number of epochs completed
    events,       \* epoch indices passed to the onEpochEnd callback, in order
    history,      \* <<>> or <<the history trainModel resolved with>>
    log           \* console.log / tfvis / framework calls made, in order

vars == <<scriptPc, listener, domFired, model, runPc, runError, fetchCount,
          carsData, cleaned, data, dataAtCall, values, tensorData, epoch,
          events, history, log>>

runLocals == <<carsData, cleaned, data, dataAtCall, values, tensorData, epoch, events, history>>

Init ==
    /\ scriptPc = "line4"
    /\ listener = FALSE
    /\ domFired = FALSE
    /\ model = "uninitialized"
    /\ runPc = "idle"
    /\ runError = ""
    /\ fetchCount = 0
    /\ carsData = <<>>
    /\ cleaned = <<>>
    /\ data = <<>>
    /\ dataAtCall = <<>>
    /\ values = <<>>
    /\ tensorData = <<>>
    /\ epoch = 0
    /\ events = <<>>
    /\ history = <<>>
    /\ log = <<>>

\* ------------------------------------------------------------ top-level script
\* line 4: console.log('Hello TensorFlow')
ScriptHello ==
    /\ scriptPc = "line4"
    /\ scriptPc' = "line52"
    /\ log' = Append(log, "Hello TensorFlow")
    /\ UNCHANGED <<listener, domFired, model, runPc, runError, fetchCount, runLocals>>

\* line 52: document.addEventListener('DOMContentLoaded', run)
ScriptAddListener ==
    /\ scriptPc = "line52"
    /\ scriptPc' = "line81"
    /\ listener' = TRUE
    /\ UNCHANGED <<domFired, model, runPc, runError, fetchCount, runLocals, log>>

\* line 81: const model = createModel()
ScriptCreateModel ==
    /\ scriptPc = "line81"
    /\ scriptPc' = "line82"
    /\ model' = "created"
    /\ log' = Append(log, "createModel")
    /\ UNCHANGED <<listener, domFired, runPc, runError, fetchCount, runLocals>>

\* line 82: tfvis.show.modelSummary(..., model)
ScriptModelSummary ==
    /\ scriptPc = "line82"
    /\ scriptPc' = "done"
    /\ log' = Append(log, "modelSummary")
    /\ UNCHANGED <<listener, domFired, model, runPc, runError, fetchCount, runLocals>>

\* ------------------------------------------------------------------ the host
\* run() up to its first suspension: getData is entered and fetch is issued
StartRun ==
    /\ runPc' = "awaitFetch"
    /\ fetchCount' = fetchCount + 1
    /\ log' = Append(log, "fetch")

\* variant: a dispatch that may interrupt the top-level script
DOMContentLoaded_Reentrant ==
    /\ ~domFired
    /\ domFired' = TRUE
    /\ IF listener /\ runPc = "idle"
       THEN StartRun
       ELSE UNCHANGED <<runPc, fetchCount, log>>
    /\ UNCHANGED <<scriptPc, listener, model, runError, runLocals>>

\* The document dispatches DOMContentLoaded once.  Event dispatch is a task:
\* it never runs while the script's top-level code is on the stack, so it
\* comes before the script starts (a script loaded late: nobody listens)
\* or after the script has run to completion.
DOMContentLoaded ==
    /\ ~domFired
    /\ scriptPc \in {"line4", "done"}
    /\ domFired' = TRUE
    /\ IF listener /\ runPc = "idle"
       THEN StartRun
       ELSE UNCHANGED <<runPc, fetchCount, log>>
    /\ UNCHANGED <<scriptPc, listener, model, runError, runLocals>>

\* --------------------------------------------------------------------- getData
\* variant: a rejected fetch is issued again
FetchReject_Retry ==
    /\ runPc = "awaitFetch"
    /\ fetchCount < 2
    /\ runError' = "NetworkError"
    /\ fetchCount' = fetchCount + 1
    /\ log' = Append(log, "fetch")
    /\ UNCHANGED <<scriptPc, listener, domFired, model, runPc, runLocals>>

\* line 11: the awaited fetch rejects; getData and then run() reject with it
FetchReject ==
    /\ runPc = "awaitFetch"
    /\ runPc' = "rejected"
    /\ runError' = "NetworkError"
    /\ UNCHANGED <<scriptPc, listener, domFired, model, fetchCount, runLocals, log>>

\* line 11: the awaited fetch resolves; line 12 starts reading the body as JSON
FetchResolve ==
    /\ runPc = "awaitFetch"
    /\ runPc' = "awaitJson"
    /\ UNCHANGED <<scriptPc, listener, domFired, model, runError, fetchCount, runLocals, log>>

\* line 12: the body is not JSON; getData and then run() reject with it
JsonReject ==
    /\ runPc = "awaitJson"
    /\ runPc' = "rejected"
    /\ runError' = "ParseError"
    /\ UNCHANGED <<scriptPc, listener, domFired, model, fetchCount, runLocals, log>>

\* lines 12-19: the body parses to a list of records; getData maps, filters
\* and returns
GetDataReturn ==
    /\ runPc = "awaitJson"
    /\ \E raw \in RawLists :
          /\ carsData' = raw
          /\ cleaned' = Cleaned(raw)
    /\ runPc' = "awaitGetData"
    /\ UNCHANGED <<scriptPc, listener, domFired, model, runError, fetchCount,
                   data, dataAtCall, values, tensorData, epoch, events, history, log>>

\* ------------------------------------------------------------------------- run
\* lines 27-41: run() resumes with getData's array (getData's frame is gone),
\* builds the points and renders the scatter plot
RunScatterplot ==
    /\ runPc = "awaitGetData"
    /\ data' = cleaned
    /\ values' = ScatterValues(cleaned)
    /\ carsData' = <<>>
    /\ cleaned' = <<>>
    /\ log' = Append(log, "scatterplot")
    /\ runPc' = "line44"
    /\ UNCHANGED <<scriptPc, listener, domFired, model, runError, fetchCount,
                   dataAtCall, tensorData, epoch, events, history>>

\* lines 44-45 (90-139): convertToTensor shuffles the caller's array in place
\* and returns the normalized tensors with their bounds
RunConvertToTensor ==
    /\ runPc = "line44"
    /\ dataAtCall' = data
    /\ \E shuffled \in Shuffle(data, Len(data)) :
       \E emptyMax \in EmptyMaxOutcomes, emptyMin \in EmptyMinOutcomes :
          /\ data' = shuffled
          /\ tensorData' = <<ConvertToTensor(shuffled, emptyMax, emptyMin)>>
    /\ log' = Append(log, "convertToTensor")
    /\ runPc' = "line48"
    /\ UNCHANGED <<scriptPc, listener, domFired, model, runError, fetchCount,
                   carsData, cleaned, values, epoch, events, history>>

\* line 48 (151-169): trainModel(model, ...) reads the module-level const
\* (a ReferenceError while it is uninitialized), compiles the model and
\* starts model.fit
RunTrainModel ==
    /\ runPc = "line48"
    /\ IF model = "uninitialized"
       THEN /\ runPc' = "rejected"
            /\ runError' = "ReferenceError"
            /\ UNCHANGED <<model, log>>
       ELSE /\ runPc' = "fitting"
            /\ model' = "compiled"
            /\ log' = Append(log, "trainModel")
            /\ UNCHANGED runError
    /\ UNCHANGED <<scriptPc, listener, domFired, fetchCount, runLocals>>

\* lines 169-178: one epoch of model.fit ends; the onEpochEnd callback of
\* tfvis.show.fitCallbacks is called with the epoch index
FitEpochEnd ==
    /\ runPc = "fitting"
    /\ epoch < Epochs
    /\ events' = Append(events, epoch)
    /\ epoch' = epoch + 1
    /\ UNCHANGED <<scriptPc, listener, domFired, model, runPc, runError, fetchCount,
                   carsData, cleaned, data, dataAtCall, values, tensorData, history, log>>

\* lines 169-178: the framework fails during training; trainModel and run() reject
FitReject ==
    /\ runPc = "fitting"
    /\ runPc' = "rejected"
    /\ runError' = "FrameworkError"
    /\ UNCHANGED <<scriptPc, listener, domFired, model, fetchCount, runLocals, log>>

\* variant: fit may resolve after any completed epoch
FitResolve_EarlyStop ==
    /\ runPc = "fitting"
    /\ epoch >= 1
    /\ history' = <<events>>
    /\ runPc' = "line49"
    /\ UNCHANGED <<scriptPc, listener, domFired, model, runError, fetchCount,
                   carsData, cleaned, data, dataAtCall, values, tensorData, epoch, events, log>>

\* line 169: model.fit resolves with the history once every epoch has run
FitResolve ==
    /\ runPc = "fitting"
    /\ epoch = Epochs
    /\ history' = <<events>>
    /\ runPc' = "line49"
    /\ UNCHANGED <<scriptPc, listener, domFired, model, runError, fetchCount,
                   carsData, cleaned, data, dataAtCall, values, tensorData, epoch, events, log>>

\* line 49: console.log('Done Training')
RunDoneTraining ==
    /\ runPc = "line49"
    /\ log' = Append(log, "Done Training")
    /\ runPc' = "done"
    /\ UNCHANGED <<scriptPc, listener, domFired, model, runError, fetchCount, runLocals>>

Next ==
    \/ ScriptHello
    \/ ScriptAddListener
    \/ ScriptCreateModel
    \/ ScriptModelSummary
    \/ DOMContentLoaded
    \/ FetchReject
    \/ FetchResolve
    \/ JsonReject
    \/ GetDataReturn
    \/ RunScatterplot
    \/ RunConvertToTensor
    \/ RunTrainModel
    \/ FitEpochEnd
    \/ FitReject
    \/ FitResolve
    \/ RunDoneTraining

Spec == Init /\ [][Next]_vars

\* ------------------------------------------------------------------ properties
InLog(name) == \E i \in 1..Len(log) : log[i] = name

\* the raw record has field f with a non-null value
HasValue(car, f) == f \in DOMAIN car /\ car[f] # Null

BothPresent(car) == HasValue(car, "Miles_per_Gallon") /\ HasValue(car, "Horsepower")

Returned == tensorData # <<>>

\* convertToTensor has just returned to run()
AtReturn == runPc = "line48"

\* C1: when getData returns, a raw record has a clean record made from it
\* exactly if its Miles_per_Gallon and Horsepower are both present and non-null;
\* every clean record is {mpg, horsepower} of one such raw record, with the raw
\* values undefaulted, and no raw record is taken twice.
C1_GetDataKeepsExactlyNonNull ==
    runPc = "awaitGetData" =>
        /\ \A i \in 1..Len(carsData) :
              BothPresent(carsData[i]) <=> \E k \in 1..Len(cleaned) : cleaned[k].id = i
        /\ \A k \in 1..Len(cleaned) :
              /\ cleaned[k].id \in 1..Len(carsData)
              /\ BothPresent(carsData[cleaned[k].id])
              /\ cleaned[k].mpg = carsData[cleaned[k].id]["Miles_per_Gallon"]
              /\ cleaned[k].horsepower = carsData[cleaned[k].id]["Horsepower"]
        /\ \A k1, k2 \in 1..Len(cleaned) : cleaned[k1].id = cleaned[k2].id => k1 = k2

\* getData returned from a list holding a record to drop (one field null, one
\* field missing) and a record to keep, a zero value included
C1_Witness ==
    /\ runPc = "awaitGetData"
    /\ Len(cleaned) = 1
    /\ \E i, j \in 1..Len(carsData) :
          /\ i # j
          /\ ~BothPresent(carsData[i])
          /\ BothPresent(carsData[j])
          /\ carsData[j]["Miles_per_Gallon"] = Number(0)

\* C2: convertToTensor called with an empty array fails with EmptyDatasetError:
\* nothing is returned and trainModel is not started.
C2_EmptyDatasetFails ==
    (InLog("convertToTensor") /\ dataAtCall = <<>>) =>
        /\ runError = "EmptyDatasetError"
        /\ tensorData = <<>>
        /\ ~InLog("trainModel")

\* the normalization contract of one feature: raw are the feature's values in
\* the order of the tensor, norm the normalized tensor, lo and hi the bounds
NormalizedFeature(norm, raw, lo, hi) ==
    /\ IsFinite(lo) /\ IsFinite(hi)
    /\ \E i \in 1..Len(raw) : raw[i] = lo
    /\ \E i \in 1..Len(raw) : raw[i] = hi
    /\ \A i \in 1..Len(raw) : lo.n * raw[i].d <= raw[i].n * lo.d /\ raw[i].n * hi.d <= hi.n * raw[i].d
    /\ Len(norm) = Len(raw)
    /\ \A i \in 1..Len(raw) :
          /\ IsFinite(norm[i])
          /\ norm[i].d > 0
          /\ norm[i].n * (hi.n - lo.n) = (raw[i].n - lo.n) * norm[i].d
          /\ 0 <= norm[i].n /\ norm[i].n <= norm[i].d
          /\ raw[i] = lo => norm[i].n = 0
          /\ raw[i] = hi => norm[i].n = norm[i].d

NonConstant(raw) == \E i, j \in 1..Len(raw) : raw[i] # raw[j]

\* C3: for a non-empty array in which a feature is not constant, the returned
\* bounds of the feature are its least and greatest value, and every normalized
\* value is (value - min) / (max - min), within [0, 1], 0 at the minimum and 1
\* at the maximum.
C3_MinMaxNormalization ==
    AtReturn =>
        LET hp == [i \in 1..Len(data) |-> data[i].horsepower]
            mpg == [i \in 1..Len(data) |-> data[i].mpg]
            td == tensorData[1]
        IN  /\ NonConstant(hp) => NormalizedFeature(td.inputs, hp, td.inputMin, td.inputMax)
            /\ NonConstant(mpg) => NormalizedFeature(td.labels, mpg, td.labelMin, td.labelMax)

\* convertToTensor returned for two records whose horsepower has a minimum
\* above zero and whose mpg differs too
C3_Witness ==
    /\ AtReturn
    /\ Len(data) = 2
    /\ data[1].horsepower # data[2].horsepower
    /\ data[1].mpg # data[2].mpg
    /\ tensorData[1].inputMin = Number(1)
    /\ tensorData[1].inputMax = Number(2)

\* number of records of arr with the given horsepower and mpg
PairCount(arr, hp, mpg) ==
    Cardinality({i \in 1..Len(arr) : arr[i].horsepower = hp /\ arr[i].mpg = mpg})

\* norm is the normalized form of v under bounds lo < hi
DerivedFrom(norm, v, lo, hi) ==
    (IsFinite(lo) /\ IsFinite(hi) /\ lo # hi) =>
        IsFinite(norm) /\ norm.n * (hi.n - lo.n) = (v.n - lo.n) * norm.d

\* C4: the shuffle keeps the pairing: the (horsepower, mpg) pairs after it are,
\* with multiplicity, those before it, and inputs[i] and labels[i] come from
\* the horsepower and the mpg of the same record, the i-th after the shuffle.
C4_ShufflePreservesPairing ==
    AtReturn =>
        LET td == tensorData[1]
        IN  /\ Len(data) = Len(dataAtCall)
            /\ \A i \in 1..Len(dataAtCall) :
                  PairCount(data, dataAtCall[i].horsepower, dataAtCall[i].mpg)
                    = PairCount(dataAtCall, dataAtCall[i].horsepower, dataAtCall[i].mpg)
            /\ Len(td.inputs) = Len(data) /\ Len(td.labels) = Len(data)
            /\ \A i \in 1..Len(data) :
                  /\ DerivedFrom(td.inputs[i], data[i].horsepower, td.inputMin, td.inputMax)
                  /\ DerivedFrom(td.labels[i], data[i].mpg, td.labelMin, td.labelMax)

\* the shuffle moved the records, and the two records differ in both features
\* in opposite directions
C4_Witness ==
    /\ AtReturn
    /\ Len(data) = 2
    /\ data # dataAtCall
    /\ data[1].horsepower.n < data[2].horsepower.n
    /\ data[1].mpg.n > data[2].mpg.n

\* C5: when a feature is constant over a non-empty array, every normalized
\* value of that feature is a defined number, never NaN.
C5_ConstantFeatureDefined ==
    (AtReturn /\ Len(data) > 0) =>
        LET td == tensorData[1]
        IN  /\ td.inputMax = td.inputMin => \A i \in 1..Len(td.inputs) : IsFinite(td.inputs[i])
            /\ td.labelMax = td.labelMin => \A i \in 1..Len(td.labels) : IsFinite(td.labels[i])

FitStarted == runPc \in {"fitting", "line49", "done"}
FitResolved == runPc \in {"line49", "done"}

\* C6: on a non-empty dataset and with no framework failure, the epoch-end
\* events are the epochs 0, 1, 2, ... in order, none skipped or repeated, and
\* trainModel resolves with the history only once all 50 have been emitted.
C6_FiftyEpochEvents ==
    (FitStarted /\ Len(data) > 0) =>
        /\ Len(events) <= Epochs
        /\ \A i \in 1..Len(events) : events[i] = i - 1
        /\ ~FitResolved => history = <<>>
        /\ FitResolved => Len(events) = Epochs /\ history = <<events>>

\* training of a non-empty dataset has resolved
C6_Witness ==
    /\ runPc = "done"
    /\ Len(data) > 0
    /\ Len(events) = Epochs
    /\ events[Epochs] = Epochs - 1

\* C7: a failed fetch or JSON parse ends the run: run() is rejected, fetch was
\* issued once, and no later step (scatter plot, convertToTensor, trainModel,
\* 'Done Training') has happened or happens.
C7_FetchFailureIsTerminal ==
    runError \in {"NetworkError", "ParseError"} =>
        /\ runPc = "rejected"
        /\ fetchCount = 1
        /\ ~InLog("scatterplot")
        /\ ~InLog("convertToTensor")
        /\ ~InLog("trainModel")
        /\ ~InLog("Done Training")
        /\ data = <<>> /\ tensorData = <<>> /\ events = <<>> /\ history = <<>>

\* the fetch was rejected
C7_Witness ==
    /\ runError = "NetworkError"
    /\ runPc = "rejected"
    /\ fetchCount = 1

\* C8: getData keeps the input order: the clean records stand in the order of
\* the raw records they were made from; a list with no surviving record gives
\* the empty array, and getData still returns.
C8_GetDataPreservesOrder ==
    /\ runPc = "awaitGetData" =>
          \A k1, k2 \in 1..Len(cleaned) : k1 < k2 => cleaned[k1].id < cleaned[k2].id
    /\ (runPc = "awaitGetData" /\ \A i \in 1..Len(carsData) : ~BothPresent(carsData[i])) =>
          cleaned = <<>> /\ runError = ""

\* getData returned two records with different values
C8_Witness ==
    /\ runPc = "awaitGetData"
    /\ Len(cleaned) = 2
    /\ cleaned[1].mpg # cleaned[2].mpg
    /\ cleaned[1].horsepower # cleaned[2].horsepower

\* C9: convertToTensor leaves the caller's array with the same length and the
\* same record objects, their mpg and horsepower unchanged; only positions change.
C9_OnlyOrderChanges ==
    AtReturn =>
        /\ Len(data) = Len(dataAtCall)
        /\ \A i \in 1..Len(dataAtCall) :
              Cardinality({j \in 1..Len(data) : data[j] = dataAtCall[i]}) = 1
        /\ \A j \in 1..Len(data) : \E i \in 1..Len(dataAtCall) : data[j] = dataAtCall[i]

\* convertToTensor returned after exchanging two records
C9_Witness ==
    /\ AtReturn
    /\ Len(dataAtCall) = 2
    /\ data[1] = dataAtCall[2]
    /\ data[2] = dataAtCall[1]

\* the observable calls of one page load, in the order the script makes them
PipelineOrder ==
    <<"Hello TensorFlow", "createModel", "modelSummary", "fetch", "scatterplot",
      "convertToTensor", "trainModel", "Done Training">>

\* C10: each step happens at most once and in the script's order: the calls
\* made so far are always an initial part of PipelineOrder, so the model is
\* created and its summary shown before run() starts (issues the fetch), the
\* fetch comes before the scatter plot, the scatter plot before
\* convertToTensor, convertToTensor before trainModel, and 'Done Training'
\* last, after trainModel resolved; the plotted points are the data as it was
\* before the shuffle; run() never reads the model while it is uninitialized.
C10_PipelineOrder ==
    /\ Len(log) <= Len(PipelineOrder)
    /\ log = SubSeq(PipelineOrder, 1, Len(log))
    /\ fetchCount <= 1
    /\ AtReturn => values = ScatterValues(dataAtCall)
    /\ runPc \in {"fitting", "line49", "done"} => Returned
    /\ runPc = "done" => history # <<>>
    /\ runPc # "idle" => model # "uninitialized"
    /\ runError # "ReferenceError"

\* a whole run, the shuffle having changed the order of the data
C10_Witness ==
    /\ InLog("Done Training")
    /\ runPc = "done"
    /\ data # dataAtCall
====
